---- MODULE Spec2Model ----
(***************************************************************************)
(* Model of kintone-mcp-server-python3: the query clause extractor         *)
(* parse_kintone_query of utils.py, and the record retrieval of client.py  *)
(* (get_records, get_all_records) behind the get_records tool of server.py.*)
(*                                                                         *)
(* A Python str is a sequence of one-character strings.  An Optional value *)
(* is a set with at most one element: None is {} and a present value v is  *)
(* {v}.  A match object is a record [start, end] with Python's half-open   *)
(* span moved to 1-based indices: it covers s[start] .. s[end - 1].        *)
(***************************************************************************)
EXTENDS Integers, Sequences, FiniteSets, TLC

VARIABLES
  query,          \* the caller's query: None or Some(text)
  pieces,         \* how many pieces of text the caller has put into query
  default_limit,  \* Optional[int] argument
  default_offset, \* Optional[int] argument
  result,         \* what the call returned (the dict of parse_kintone_query)
  raised,         \* the exception the call ended with: None or Some(name)
  pc,             \* "build": the call is still to come; "done": it ended
  calls,          \* the frames of the calls that run side by side
  client,         \* the record retrieval in progress in KintoneClient
  remote,         \* how many records of the app match the caller's query
  server          \* the tool call in progress in KintoneMCPServer

\* The variables of the single call, those of the calls side by side and
\* those of the record retrieval; server is the tool call.
single_vars ==
  <<query, pieces, default_limit, default_offset, result, raised, pc>>

client_vars == <<client, remote>>

vars == <<single_vars, calls, client_vars, server>>

\* ------------------------------------------------------------------ bounds
\* The number of lexicon pieces a caller's query is put together from.
MaxPieces == 3

\* The number of calls of parse_kintone_query that run side by side.
MaxCallers == 2

\* ------------------------------------------------------------ Optional[T]
None == {}
Some(v) == {v}
IsNone(o) == o = {}
Val(o) == CHOOSE v \in o : TRUE

\* -------------------------------------------------------------- characters
\* \s of a str pattern (and the set str.strip() trims): the characters of
\* the model's alphabet that are whitespace.
IsSpace(c) == c \in {" ", "\t"}

\* \d of a str pattern.
IsDigit(c) == c \in {"0", "1", "2", "3", "4", "5", "6", "7", "8", "9"}

\* int() of one decimal digit.
DigitVal(c) ==
  CASE c = "0" -> 0 [] c = "1" -> 1 [] c = "2" -> 2 [] c = "3" -> 3
    [] c = "4" -> 4 [] c = "5" -> 5 [] c = "6" -> 6 [] c = "7" -> 7
    [] c = "8" -> 8 [] c = "9" -> 9

\* Case folding of re.IGNORECASE on the letters of the six keywords.
Lower(c) ==
  CASE c = "A" -> "a" [] c = "B" -> "b" [] c = "C" -> "c" [] c = "D" -> "d"
    [] c = "E" -> "e" [] c = "F" -> "f" [] c = "I" -> "i" [] c = "L" -> "l"
    [] c = "M" -> "m" [] c = "O" -> "o" [] c = "R" -> "r" [] c = "S" -> "s"
    [] c = "T" -> "t" [] c = "Y" -> "y" [] OTHER -> c

LowerStr(s) == [i \in 1..Len(s) |-> Lower(s[i])]

\* ------------------------------------------------------------ regex pieces
\* A greedy run X* from index i: the index after the longest run of
\* characters of the class.  cls is "s" (\s), "S" ([^\s]) or "d" (\d).
InClass(cls, c) ==
  CASE cls = "s" -> IsSpace(c)
    [] cls = "S" -> ~IsSpace(c)
    [] cls = "d" -> IsDigit(c)

RunEnd(s, i, cls) ==
  CHOOSE j \in i..(Len(s) + 1) :
    /\ j = Len(s) + 1 \/ ~InClass(cls, s[j])
    /\ \A k \in i..(j - 1) : InClass(cls, s[k])

\* A variant of the keyword literal without re.IGNORECASE.
Literal_case_sensitive(s, i, kw) ==
  IF i + Len(kw) - 1 <= Len(s)
     /\ \A k \in 1..Len(kw) : s[i + k - 1] = kw[k]
  THEN i + Len(kw)
  ELSE 0

\* A literal keyword at index i under re.IGNORECASE: the index after it, or
\* 0 when the text at i is not the keyword.
Literal(s, i, kw) ==
  IF i + Len(kw) - 1 <= Len(s)
     /\ \A k \in 1..Len(kw) : Lower(s[i + k - 1]) = kw[k]
  THEN i + Len(kw)
  ELSE 0

kw_order == <<"o", "r", "d", "e", "r">>
kw_by == <<"b", "y">>
kw_asc == <<"a", "s", "c">>
kw_desc == <<"d", "e", "s", "c">>
kw_limit == <<"l", "i", "m", "i", "t">>
kw_offset == <<"o", "f", "f", "s", "e", "t">>

\* \s+KEYWORD from index i: the index after the keyword, or 0.  The run is
\* greedy; giving characters back cannot help, because the keyword starts
\* with a non-space character.
SpaceKeyword(s, i, kw) ==
  LET j == RunEnd(s, i, "s")
  IN  IF j = i THEN 0 ELSE Literal(s, j, kw)

\* (?:\s+(?:asc|desc))? from index i: the index after the direction when it
\* is there, i when the optional group matches nothing.
Direction(s, i) ==
  LET j == RunEnd(s, i, "s")
      a == Literal(s, j, kw_asc)
      d == Literal(s, j, kw_desc)
  IN  IF j = i THEN i
      ELSE IF a # 0 THEN a
      ELSE IF d # 0 THEN d
      ELSE i

\* (?:\s*,\s*[^\s]+(?:\s+(?:asc|desc))?)* from index i: the index after the
\* last further field of the list.  Every iteration is greedy and what
\* follows it is optional, so the first path the engine tries succeeds.
RECURSIVE MoreFields(_, _)
MoreFields(s, i) ==
  LET c == RunEnd(s, i, "s")
      f == RunEnd(s, c + 1, "s")
      t == RunEnd(s, f, "S")
  IN  IF c <= Len(s) /\ s[c] = "," /\ t > f
      THEN MoreFields(s, Direction(s, t))
      ELSE i

\* order_pattern anchored at index i: the index after the match, or 0.
order_pattern(s, i) ==
  LET o == SpaceKeyword(s, i, kw_order)
      b == IF o = 0 THEN 0 ELSE SpaceKeyword(s, o, kw_by)
      f == IF b = 0 THEN 0 ELSE RunEnd(s, b, "s")
      t == IF b = 0 THEN 0 ELSE RunEnd(s, f, "S")
  IN  IF b = 0 \/ f = b \/ t = f THEN 0
      ELSE MoreFields(s, Direction(s, t))

\* \s+KEYWORD\s+(\d+) anchored at index i: the index after the digits, or 0.
NumberClause(s, i, kw) ==
  LET k == SpaceKeyword(s, i, kw)
      w == IF k = 0 THEN 0 ELSE RunEnd(s, k, "s")
      d == IF k = 0 THEN 0 ELSE RunEnd(s, w, "d")
  IN  IF k = 0 \/ w = k \/ d = w THEN 0 ELSE d

limit_pattern(s, i) == NumberClause(s, i, kw_limit)

offset_pattern(s, i) == NumberClause(s, i, kw_offset)

\* The pattern named p anchored at index i.
MatchAt(p, s, i) ==
  CASE p = "order" -> order_pattern(s, i)
    [] p = "limit" -> limit_pattern(s, i)
    [] p = "offset" -> offset_pattern(s, i)

\* The leftmost match of the pattern named p that starts at index i or
\* later, or None.  A match starts with \s+, so only at a whitespace
\* character: j is the first one at or after i.
RECURSIVE search_from(_, _, _)
search_from(p, s, i) ==
  LET j == RunEnd(s, i, "S")
  IN  IF j > Len(s) THEN None
      ELSE IF MatchAt(p, s, j) # 0
           THEN Some([start |-> j, end |-> MatchAt(p, s, j)])
           ELSE search_from(p, s, j + 1)

\* re.search(pattern, s, re.IGNORECASE): the leftmost match, or None.
re_search(p, s) == search_from(p, s, 1)

\* match.group(0).
group0(s, m) == SubSeq(s, m.start, m.end - 1)

\* match.group(1) of limit_pattern and offset_pattern: the trailing digits.
DigitsStart(s, e) ==
  CHOOSE b \in 1..e :
    /\ b = 1 \/ ~IsDigit(s[b - 1])
    /\ \A k \in b..(e - 1) : IsDigit(s[k])

group1(s, m) == SubSeq(s, DigitsStart(s, m.end), m.end - 1)

\* The value of a string of decimal digits.
RECURSIVE digits_value(_)
digits_value(d) ==
  IF d = <<>> THEN 0
  ELSE 10 * digits_value(SubSeq(d, 1, Len(d) - 1)) + DigitVal(d[Len(d)])

\* The index of the first digit of d that is not a leading zero.
Significant(d) ==
  CHOOSE j \in 1..(Len(d) + 1) :
    /\ j = Len(d) + 1 \/ d[j] # "0"
    /\ \A k \in 1..(j - 1) : d[k] = "0"

\* int(text) of a string of decimal digits, when it returns: leading zeros
\* add nothing to the value.
int(d) == digits_value(SubSeq(d, Significant(d), Len(d)))

\* The interpreter's limit on the digits of a str that int() converts
\* (sys.int_info.default_max_str_digits); the count includes leading zeros.
int_max_str_digits == 4300

\* A variant of the limit check that already refuses a string of exactly
\* int_max_str_digits digits.
int_raises_at_limit(d) == Len(d) >= int_max_str_digits

\* int(text) raises ValueError: the string has more digits than the limit.
int_raises(d) == Len(d) > int_max_str_digits

\* The first and last kept index of s.strip(); first > last when s is all
\* whitespace.
StripFirst(s) == RunEnd(s, 1, "s")

RECURSIVE StripLast(_, _)
StripLast(s, e) ==
  IF e >= 1 /\ IsSpace(s[e]) THEN StripLast(s, e - 1) ELSE e

\* A variant of strip() that trims the left side only (lstrip).
strip_left_only(s) == SubSeq(s, StripFirst(s), Len(s))

strip(s) == SubSeq(s, StripFirst(s), StripLast(s, Len(s)))

\* s[:m.start()] + s[m.end():] when there is a match, s otherwise.
Cut(s, m) ==
  IF IsNone(m) THEN s
  ELSE SubSeq(s, 1, Val(m).start - 1) \o SubSeq(s, Val(m).end, Len(s))

\* min(a, b).
Min(a, b) == IF a <= b THEN a ELSE b

\* -------------------------------------------------------- parse_kintone_query
\* order_match, limit_match and offset_match: all three are searched in the
\* caller's query.
order_match(q) == re_search("order", q)

limit_match(q) == re_search("limit", q)

offset_match(q) == re_search("offset", q)

\* base_query after the order-by match is cut out.
AfterOrder(q) == Cut(q, order_match(q))

\* The loop over [offset_pattern, limit_pattern]: each pattern is searched in
\* the text as it is at that moment and its first match is cut out.
\* A variant of the loop's first pass that leaves the offset clause in.
AfterOffset_not_cut(q) == AfterOrder(q)

AfterOffset(q) ==
  LET base_query == AfterOrder(q)
  IN  Cut(base_query, re_search("offset", base_query))

\* A variant of the loop that takes the patterns in the order
\* [limit_pattern, offset_pattern].
AfterLimit_limit_first(q) ==
  LET base_query == AfterOrder(q)
      without_limit == Cut(base_query, re_search("limit", base_query))
  IN  Cut(without_limit, re_search("offset", without_limit))

AfterLimit(q) ==
  LET base_query == AfterOffset(q)
  IN  Cut(base_query, re_search("limit", base_query))

\* The same three cuts and the final strip() applied to the indices of the
\* query instead of its characters: base_positions(q)[k] is the index in the
\* query of the k-th character of base_query.
Indices(q) == [i \in 1..Len(q) |-> i]

base_positions(q) ==
  LET t1 == AfterOrder(q)
      t2 == AfterOffset(q)
      t3 == AfterLimit(q)
      k1 == Cut(Indices(q), order_match(q))
      k2 == Cut(k1, re_search("offset", t1))
      k3 == Cut(k2, re_search("limit", t2))
  IN  SubSeq(k3, StripFirst(t3), StripLast(t3, Len(t3)))

\* query_limit and query_offset: int(match.group(1)) if there is a match,
\* else None.
number_of(q, m) ==
  IF IsNone(m) THEN None ELSE Some(int(group1(q, Val(m))))

\* A variant of final_limit in which the query's limit always wins.
final_limit_widening(query_limit, dl) ==
  IF ~IsNone(query_limit) THEN query_limit ELSE dl

\* final_limit.
final_limit(query_limit, dl) ==
  IF ~IsNone(query_limit) /\ ~IsNone(dl)
  THEN Some(Min(Val(query_limit), Val(dl)))
  ELSE IF ~IsNone(query_limit) THEN query_limit
  ELSE dl

\* A variant of final_offset in which a present default wins.
final_offset_default_first(query_offset, do) ==
  IF ~IsNone(do) THEN do ELSE query_offset

\* final_offset.
final_offset(query_offset, do) ==
  IF ~IsNone(query_offset) THEN query_offset ELSE do

\* `not query`: the query is None or the empty string.
Falsy(qry) == IsNone(qry) \/ Val(qry) = <<>>

\* A variant of the early return with the two defaults swapped.
empty_result_swapped(dl, do) ==
  [base_query |-> <<>>, order_by |-> None, limit |-> do, offset |-> dl]

\* The early return for an absent or empty query.
empty_result(dl, do) ==
  [base_query |-> <<>>, order_by |-> None, limit |-> dl, offset |-> do]

\* A variant of order_by that keeps the matched text as it is (no strip()).
order_by_text_unstripped(q, om) ==
  IF IsNone(om) THEN None ELSE Some(group0(q, Val(om)))

\* order_by: the matched text, stripped.
order_by_text(q, om) ==
  IF IsNone(om) THEN None ELSE Some(strip(group0(q, Val(om))))

\* The call ends in the ValueError of one of its two int() conversions.
parse_raises(qry) ==
  /\ ~Falsy(qry)
  /\ LET q == Val(qry)
         lm == limit_match(q)
         fm == offset_match(q)
     IN  \/ ~IsNone(lm) /\ int_raises(group1(q, Val(lm)))
         \/ ~IsNone(fm) /\ int_raises(group1(q, Val(fm)))

\* The dict the call returns when it does not raise.
parse_kintone_query(qry, dl, do) ==
  IF Falsy(qry)
  THEN empty_result(dl, do)
  ELSE LET q == Val(qry)
           om == order_match(q)
           lm == limit_match(q)
           fm == offset_match(q)
       IN  [base_query |-> strip(AfterLimit(q)),
            order_by |-> order_by_text(q, om),
            limit |-> final_limit(number_of(q, lm), dl),
            offset |-> final_offset(number_of(q, fm), do)]

\* ------------------------------------------------------------ input texts
sp == <<" ">>
tab == <<"\t">>
txt_a == <<"a">>
txt_comma == <<",">>
txt_quote == <<"\"">>
txt_1 == <<"1">>
txt_03 == <<"0", "3">>
txt_ORDER == <<"O", "R", "D", "E", "R">>
txt_By == <<"B", "y">>
txt_LIMIT == <<"L", "I", "M", "I", "T">>
txt_OffSet == <<"O", "f", "f", "S", "e", "t">>
txt_Asc == <<"A", "s", "c">>

\* The lexicon a caller's free-form query is put together from: a predicate
\* character, whitespace, a comma, the clause keywords behind a space (order
\* by and limit also in upper or mixed case) and two numerals, one of them
\* with a leading zero.
Lexicon ==
  { txt_a, tab, txt_comma,
    sp \o kw_order \o sp \o kw_by, sp \o kw_limit, sp \o kw_offset,
    sp \o txt_1, sp \o txt_03, sp \o kw_desc,
    sp \o txt_ORDER \o sp \o txt_By, sp \o txt_LIMIT }

\* The defaults a caller passes.
DefaultLimits == {None, Some(2)}

DefaultOffsets == {None, Some(0)}

\* ---------------------------------------------------------- state machine
NoResult == empty_result(None, None)

\* No call runs beside the single one.
NoCalls == <<>>

\* No record retrieval is in progress.
NoClient == [op |-> "none"]

\* No tool call is in progress.
NoServer == [at |-> "none"]

\* A caller holds no query (None) or starts from the empty text.
Init ==
  /\ query \in {None, Some(<<>>)}
  /\ pieces = 0
  /\ default_limit = None
  /\ default_offset = None
  /\ result = NoResult
  /\ raised = None
  /\ pc = "build"
  /\ calls = NoCalls
  /\ client = NoClient
  /\ remote = 0
  /\ server = NoServer

\* The caller's query text grows by one piece of the lexicon.
AppendPiece(p) ==
  /\ pc = "build"
  /\ ~IsNone(query)
  /\ pieces < MaxPieces
  /\ query' = Some(Val(query) \o p)
  /\ pieces' = pieces + 1
  /\ UNCHANGED <<default_limit, default_offset, result, raised, pc, calls>>
  /\ UNCHANGED <<client_vars, server>>

\* result = parse_kintone_query(query, dl, do), or the call raises and
\* returns nothing.
Parse(dl, do) ==
  /\ pc = "build"
  /\ default_limit' = dl
  /\ default_offset' = do
  /\ IF parse_raises(query)
     THEN raised' = Some("ValueError") /\ result' = result
     ELSE raised' = None /\ result' = parse_kintone_query(query, dl, do)
  /\ pc' = "done"
  /\ UNCHANGED <<query, pieces, calls, client_vars, server>>

Next ==
  \/ \E p \in Lexicon : AppendPiece(p)
  \/ \E dl \in DefaultLimits, do \in DefaultOffsets : Parse(dl, do)

Spec == Init /\ [][Next]_vars

\* ------------------------------------------- queries with trailing clauses
\* A second family of inputs: a predicate followed by an order-by clause, a
\* limit clause and an offset clause, in that textual order, each optional.
txt_order_by == sp \o kw_order \o sp \o kw_by
txt_ORDER_By == sp \o txt_ORDER \o sp \o txt_By
txt_limit == sp \o kw_limit
txt_offset == sp \o kw_offset

\* Predicates: a plain one, one ending in whitespace, a parenthesized group
\* around a quoted literal, a quoted literal whose text reads like a limit
\* clause, and three that hold a clause keyword without a complete clause.
Predicates ==
  { <<>>,
    txt_a,
    txt_a \o tab,
    <<"(">> \o txt_quote \o txt_a \o txt_quote \o <<")">>,
    txt_quote \o txt_a \o txt_limit \o sp \o txt_1 \o txt_quote,
    txt_a \o txt_limit,
    txt_a \o sp \o kw_order,
    txt_a \o txt_order_by }

\* A field's direction: none, desc, Asc.
Directions == {<<>>, sp \o kw_desc, sp \o txt_Asc}

\* The separators of an order-by list.
Separators == {txt_comma, txt_comma \o sp, sp \o txt_comma}

OneField == {txt_a \o d : d \in Directions}

TwoFields ==
  {f \o c \o g : f \in OneField, c \in Separators, g \in OneField}

OrderBys ==
  {<<>>} \cup
  {k \o sp \o l : k \in {txt_order_by, txt_ORDER_By}, l \in OneField \cup TwoFields}

Numerals == {txt_1, txt_03}

Limits ==
  {<<>>, sp \o txt_LIMIT, sp \o txt_LIMIT \o sp \o txt_1} \cup
  {txt_limit \o sp \o n : n \in Numerals}

Offsets ==
  {<<>>, sp \o txt_OffSet \o sp \o txt_03} \cup
  {txt_offset \o sp \o n : n \in Numerals}

ClauseQueries ==
  {p \o o \o l \o f : p \in Predicates, o \in OrderBys, l \in Limits, f \in Offsets}

InitClauses ==
  /\ query \in {Some(q) : q \in ClauseQueries}
  /\ pieces = 4
  /\ default_limit = None
  /\ default_offset = None
  /\ result = NoResult
  /\ raised = None
  /\ pc = "build"
  /\ calls = NoCalls
  /\ client = NoClient
  /\ remote = 0
  /\ server = NoServer

NextClauses ==
  \E dl \in DefaultLimits, do \in DefaultOffsets : Parse(dl, do)

SpecClauses == InitClauses /\ [][NextClauses]_vars

\* ------------------------------------------------ queries with long numerals
\* A third family of inputs: a predicate followed by a limit clause and an
\* offset clause whose numerals have about int_max_str_digits digits.
\* How far below and above int_max_str_digits the numerals' lengths go.
DigitsMargin == 1

Zeros(n) == [i \in 1..n |-> "0"]

LongNumerals ==
  {Zeros(n - 1) \o d :
     n \in (int_max_str_digits - DigitsMargin)..(int_max_str_digits + DigitsMargin),
     d \in {<<"0">>, txt_1}}

LongLimits ==
  {<<>>} \cup {txt_limit \o sp \o n : n \in LongNumerals \cup {txt_03}}

LongOffsets ==
  {<<>>} \cup {txt_offset \o sp \o n : n \in LongNumerals \cup {txt_1}}

LongQueries == {txt_a \o l \o f : l \in LongLimits, f \in LongOffsets}

InitDigits ==
  /\ query \in {Some(q) : q \in LongQueries}
  /\ pieces = 3
  /\ default_limit = None
  /\ default_offset = None
  /\ result = NoResult
  /\ raised = None
  /\ pc = "build"
  /\ calls = NoCalls
  /\ client = NoClient
  /\ remote = 0
  /\ server = NoServer

NextDigits ==
  \E dl \in DefaultLimits, do \in DefaultOffsets : Parse(dl, do)

SpecDigits == InitDigits /\ [][NextDigits]_vars

\* ------------------------------------------------ queries with repeated clauses
\* A fourth family of inputs: a head followed by up to four clauses of any
\* kind in any textual order, so that a kind can occur twice, a limit can
\* stand before an order-by, and a keyword can stand where a field or a
\* number is expected.
RepeatHeads == {<<>>, txt_a, txt_a \o txt_limit, txt_order_by}

RepeatClauses ==
  { <<>>, sp \o txt_03,
    txt_limit \o sp \o txt_1, txt_limit \o sp \o txt_03,
    txt_offset \o sp \o txt_1, txt_offset \o sp \o txt_03,
    txt_order_by \o sp \o txt_a }

RepeatQueries ==
  {h \o a \o b \o c \o d :
     h \in RepeatHeads, a \in RepeatClauses, b \in RepeatClauses,
     c \in RepeatClauses, d \in RepeatClauses}

InitRepeats ==
  /\ query \in {Some(q) : q \in RepeatQueries}
  /\ pieces = 5
  /\ default_limit = None
  /\ default_offset = None
  /\ result = NoResult
  /\ raised = None
  /\ pc = "build"
  /\ calls = NoCalls
  /\ client = NoClient
  /\ remote = 0
  /\ server = NoServer

NextRepeats ==
  \E dl \in DefaultLimits, do \in DefaultOffsets : Parse(dl, do)

SpecRepeats == InitRepeats /\ [][NextRepeats]_vars

\* ------------------------------------------------------ calls side by side
\* Several calls of parse_kintone_query run interleaved, statement by
\* statement.  Each call has a frame with its arguments and its locals; the
\* function has no global, no attribute and no closure variable.
Callers == 1..MaxCallers

\* The arguments (query, default_limit, default_offset) the callers pass.
CallArguments ==
  { <<None, Some(2), None>>,
    <<Some(txt_a \o txt_limit \o sp \o txt_03 \o txt_offset \o sp \o txt_1),
      Some(2), Some(0)>>,
    <<Some(txt_order_by \o sp \o txt_a \o txt_limit \o sp \o txt_1),
      None, Some(0)>>,
    <<Some(txt_a \o txt_limit \o txt_offset \o sp \o txt_1 \o sp \o txt_03),
      None, None>> }

\* The frame of a call that has not executed a statement yet.
NewFrame(a) ==
  [at |-> "check", query |-> a[1], default_limit |-> a[2],
   default_offset |-> a[3], order_match |-> None, order_by |-> None,
   limit_match |-> None, query_limit |-> None, offset_match |-> None,
   query_offset |-> None, base_query |-> <<>>,
   patterns |-> <<"offset", "limit">>, returned |-> NoResult,
   raised |-> None]

\* A variant in which base_query is one module-level name that every call
\* reads: the text the first caller works on.
working_text_shared(cs, c) == cs[1].base_query

\* base_query as the call c reads it: a local of its own frame.
working_text(cs, c) == cs[c].base_query

InitCalls ==
  /\ query = None
  /\ pieces = 0
  /\ default_limit = None
  /\ default_offset = None
  /\ result = NoResult
  /\ raised = None
  /\ pc = "build"
  /\ calls \in [Callers -> {NewFrame(a) : a \in CallArguments}]
  /\ client = NoClient
  /\ remote = 0
  /\ server = NoServer

\* if not query: return the defaults.
check_query(c) ==
  /\ calls[c].at = "check"
  /\ LET f == calls[c]
     IN  calls' = [calls EXCEPT ![c] =
           IF Falsy(f.query)
           THEN [f EXCEPT !.at = "done",
                          !.returned =
                            empty_result(f.default_limit, f.default_offset)]
           ELSE [f EXCEPT !.at = "order"]]
  /\ UNCHANGED <<single_vars, client_vars, server>>

\* order_match = re.search(order_pattern, query); order_by = its text.
extract_order(c) ==
  /\ calls[c].at = "order"
  /\ LET f == calls[c]
         q == Val(f.query)
         m == re_search("order", q)
     IN  calls' = [calls EXCEPT ![c] =
           [f EXCEPT !.at = "limit", !.order_match = m,
                     !.order_by = order_by_text(q, m)]]
  /\ UNCHANGED <<single_vars, client_vars, server>>

\* limit_match = re.search(limit_pattern, query); query_limit = int(...).
extract_limit(c) ==
  /\ calls[c].at = "limit"
  /\ LET f == calls[c]
         q == Val(f.query)
         m == re_search("limit", q)
     IN  calls' = [calls EXCEPT ![c] =
           IF ~IsNone(m) /\ int_raises(group1(q, Val(m)))
           THEN [f EXCEPT !.at = "raised", !.raised = Some("ValueError")]
           ELSE [f EXCEPT !.at = "offset", !.limit_match = m,
                          !.query_limit = number_of(q, m)]]
  /\ UNCHANGED <<single_vars, client_vars, server>>

\* offset_match = re.search(offset_pattern, query); query_offset = int(...).
extract_offset(c) ==
  /\ calls[c].at = "offset"
  /\ LET f == calls[c]
         q == Val(f.query)
         m == re_search("offset", q)
     IN  calls' = [calls EXCEPT ![c] =
           IF ~IsNone(m) /\ int_raises(group1(q, Val(m)))
           THEN [f EXCEPT !.at = "raised", !.raised = Some("ValueError")]
           ELSE [f EXCEPT !.at = "cut_order", !.offset_match = m,
                          !.query_offset = number_of(q, m)]]
  /\ UNCHANGED <<single_vars, client_vars, server>>

\* base_query = query; if order_match: cut it out of base_query.
remove_order(c) ==
  /\ calls[c].at = "cut_order"
  /\ LET f == calls[c]
     IN  calls' = [calls EXCEPT ![c] =
           [f EXCEPT !.at = "cut_clause",
                     !.base_query = Cut(Val(f.query), f.order_match)]]
  /\ UNCHANGED <<single_vars, client_vars, server>>

\* One pass of the loop over [offset_pattern, limit_pattern]: search the
\* pattern in base_query and cut its first match out.
remove_clause(c) ==
  /\ calls[c].at = "cut_clause"
  /\ LET f == calls[c]
         pattern == Head(f.patterns)
         base_query == working_text(calls, c)
     IN  calls' = [calls EXCEPT ![c] =
           [f EXCEPT
              !.at = IF Tail(f.patterns) = <<>> THEN "return" ELSE "cut_clause",
              !.patterns = Tail(f.patterns),
              !.base_query =
                Cut(base_query, re_search(pattern, base_query))]]
  /\ UNCHANGED <<single_vars, client_vars, server>>

\* base_query.strip(), final_limit, final_offset and the return.
return_result(c) ==
  /\ calls[c].at = "return"
  /\ LET f == calls[c]
     IN  calls' = [calls EXCEPT ![c] =
           [f EXCEPT
              !.at = "done",
              !.returned =
                [base_query |-> strip(working_text(calls, c)),
                 order_by |-> f.order_by,
                 limit |-> final_limit(f.query_limit, f.default_limit),
                 offset |-> final_offset(f.query_offset, f.default_offset)]]]
  /\ UNCHANGED <<single_vars, client_vars, server>>

NextCalls ==
  \E c \in Callers :
    \/ check_query(c)
    \/ extract_order(c)
    \/ extract_limit(c)
    \/ extract_offset(c)
    \/ remove_order(c)
    \/ remove_clause(c)
    \/ return_result(c)

SpecCalls == InitCalls /\ [][NextCalls]_vars

\* ----------------------------------------------------------- KintoneClient
\* The most records one request may ask for (constants.py; the docstrings of
\* get_records and get_all_records give its value).
MAX_RECORDS_PER_REQUEST == 500

\* arguments.get("limit", 100) and arguments.get("offset", 0) of the
\* get_records tool.
tool_default_limit == 100

tool_default_offset == 0

\* The default batch_size of get_all_records.
default_batch_size == 500

\* The pages a remote app holds at most: its records are at most MaxPages
\* times the records one request of the retrieval asks for.
MaxPages == 3

\* str(n) of an int, as an f-string formats it.
RECURSIVE natural_str(_)
natural_str(n) ==
  IF n < 10 THEN <<CHOOSE c \in {"0", "1", "2", "3", "4", "5", "6", "7", "8", "9"} :
                     DigitVal(c) = n>>
  ELSE natural_str(n \div 10) \o natural_str(n % 10)

str(n) == IF n < 0 THEN <<"-">> \o natural_str(-n) ELSE natural_str(n)

txt_limit_ == kw_limit \o sp

txt_offset_ == sp \o kw_offset \o sp

\* A variant of the "size" parameter without the cap.
request_size_uncapped(limit) == limit

\* params["size"] = min(limit, MAX_RECORDS_PER_REQUEST).
request_size(limit) == Min(limit, MAX_RECORDS_PER_REQUEST)

\* params["query"]: the caller's query, when there is one, and the literal
\* limit and offset suffix.
request_query(qry, size, offset) ==
  LET suffix == txt_limit_ \o str(size) \o txt_offset_ \o str(offset)
  IN  IF Falsy(qry) THEN suffix ELSE Val(qry) \o sp \o suffix

\* The params get_records hands to _make_request.
get_records(qry, limit, offset) ==
  LET size == request_size(limit)
  IN  [size |-> size, query |-> request_query(qry, size, offset)]

\* The remote reads the offset from the end of the query parameter.
remote_offset(params) ==
  int(SubSeq(params.query, DigitsStart(params.query, Len(params.query) + 1),
             Len(params.query)))

\* response.records: the remote holds the records 1..n and answers with
\* those from the offset on, at most params.size of them.
remote_records(n, params) ==
  SubSeq([k \in 1..n |-> k], remote_offset(params) + 1,
         Min(remote_offset(params) + params.size, n))

\* The queries a caller passes to the retrieval: none, a plain one, one
\* with a limit clause, one with an order-by and an offset clause.
ClientQueries ==
  { None, Some(txt_a),
    Some(txt_a \o txt_limit \o sp \o txt_1),
    Some(txt_a \o txt_order_by \o sp \o txt_a \o txt_offset \o sp \o txt_03) }

\* The limit and offset arguments of the get_records tool, None when the
\* caller gives none.
ToolLimits ==
  {None, Some(1), Some(MAX_RECORDS_PER_REQUEST), Some(MAX_RECORDS_PER_REQUEST + 1)}

ToolOffsets == {None, Some(0), Some(2), Some(MAX_RECORDS_PER_REQUEST)}

\* The batch sizes get_all_records is called with.
BatchSizes ==
  {1, 2, MAX_RECORDS_PER_REQUEST - 1, default_batch_size,
   MAX_RECORDS_PER_REQUEST + 1, 2 * MAX_RECORDS_PER_REQUEST}

\* The numbers of records the remote app holds.
RemoteSizes ==
  {0, 1, 2, 3, MAX_RECORDS_PER_REQUEST - 1, MAX_RECORDS_PER_REQUEST,
   MAX_RECORDS_PER_REQUEST + 1, 2 * MAX_RECORDS_PER_REQUEST,
   2 * MAX_RECORDS_PER_REQUEST + 1}

\* The state of a retrieval before its first statement.
NewClient(op, qry, limit, offset, batch_size) ==
  [op |-> op, at |-> "call", query |-> qry, limit |-> limit,
   offset_argument |-> offset, batch_size |-> batch_size, offset |-> 0,
   all_records |-> <<>>, records |-> <<>>, params |-> None, sent |-> 0,
   received |-> 0, returned |-> <<>>, outcome |-> "ok", raised |-> None]

InitClient ==
  /\ query = None
  /\ pieces = 0
  /\ default_limit = None
  /\ default_offset = None
  /\ result = NoResult
  /\ raised = None
  /\ pc = "build"
  /\ calls = NoCalls
  /\ remote \in RemoteSizes
  /\ server = NoServer
  /\ \/ \E qry \in ClientQueries, l \in ToolLimits, o \in ToolOffsets :
          client = NewClient("get_records", qry, l, o, 0)
     \/ \E qry \in ClientQueries, b \in BatchSizes :
          /\ remote <= MaxPages * request_size(b)
          /\ client = NewClient("get_all_records", qry, None, None, b)

\* KintoneMCPServer._get_records up to the request of client.get_records.
tool_get_records ==
  /\ client.op = "get_records"
  /\ client.at = "call"
  /\ LET limit == IF IsNone(client.limit) THEN tool_default_limit
                  ELSE Val(client.limit)
         offset == IF IsNone(client.offset_argument) THEN tool_default_offset
                   ELSE Val(client.offset_argument)
     IN  client' = [client EXCEPT
                      !.at = "waiting",
                      !.params = Some(get_records(client.query, limit, offset)),
                      !.sent = client.sent + 1]
  /\ UNCHANGED <<single_vars, calls, remote, server>>

\* The response of the remote to the get_records tool, returned to the
\* caller.
tool_get_records_response ==
  /\ client.op = "get_records"
  /\ client.at = "waiting"
  /\ LET records == remote_records(remote, Val(client.params))
     IN  client' = [client EXCEPT
                      !.at = "done",
                      !.records = records,
                      !.received = client.received + 1,
                      !.returned = records]
  /\ UNCHANGED <<single_vars, calls, remote, server>>

\* get_all_records: all_records = [], offset = 0 on entry, then the call of
\* get_records at the head of the loop.  A remote of at most MaxPages pages
\* is read with MaxPages + 1 requests; the model follows a retrieval one
\* request further and no more.
get_all_records_request ==
  /\ client.op = "get_all_records"
  /\ client.at \in {"call", "loop"}
  /\ client.sent <= MaxPages + 1
  /\ client' = [client EXCEPT
                  !.at = "waiting",
                  !.params = Some(get_records(client.query, client.batch_size,
                                              client.offset)),
                  !.sent = client.sent + 1]
  /\ UNCHANGED <<single_vars, calls, remote, server>>

\* A variant of the advance of the offset that leaves it where it is.
next_offset_stays(offset, batch_size) == offset

\* A variant of the advance of the offset: by one record.
next_offset_by_one(offset, batch_size) == offset + 1

\* offset += batch_size.
next_offset(offset, batch_size) == offset + batch_size

\* A variant of the check that also takes a full page for the last one.
retrieved_all_at_full_page(records, batch_size) == Len(records) <= batch_size

\* "Check if we've retrieved all records": len(records) < batch_size.
retrieved_all(records, batch_size) == Len(records) < batch_size

\* get_all_records from the response of get_records to the end of the loop
\* body: break on an empty page, extend all_records, break on a page shorter
\* than batch_size, else advance the offset.
get_all_records_response ==
  /\ client.op = "get_all_records"
  /\ client.at = "waiting"
  /\ LET records == remote_records(remote, Val(client.params))
         all_records == client.all_records \o records
     IN  client' =
           IF records = <<>>
           THEN [client EXCEPT !.at = "done", !.records = records,
                               !.received = client.received + 1,
                               !.returned = client.all_records]
           ELSE IF retrieved_all(records, client.batch_size)
           THEN [client EXCEPT !.at = "done", !.records = records,
                               !.received = client.received + 1,
                               !.all_records = all_records,
                               !.returned = all_records]
           ELSE [client EXCEPT !.at = "loop", !.records = records,
                               !.received = client.received + 1,
                               !.all_records = all_records,
                               !.offset = next_offset(client.offset,
                                                      client.batch_size)]
  /\ UNCHANGED <<single_vars, calls, remote, server>>

NextClient ==
  \/ tool_get_records
  \/ tool_get_records_response
  \/ get_all_records_request
  \/ get_all_records_response

SpecClient == InitClient /\ [][NextClient]_vars

\* ------------------------------------------------------- requests that fail
\* How a request of _make_request can end other than with the parsed
\* response: a response with status_code >= 400, or a RequestException of
\* the HTTP library.
RequestFailures == {"http_error", "network_error"}

\* The exception _make_request raises for the failure.
make_request_raises(failure) ==
  IF failure = "http_error" THEN "KintoneAPIError" ELSE "KintoneNetworkError"

\* A variant of the call of get_records in a try block that returns the
\* records accumulated so far when the request fails.
leave_call_with_partial_result(c, e) ==
  [c EXCEPT !.at = "done", !.returned = c.all_records]

\* get_records and get_all_records call _make_request outside any try
\* block: the exception e leaves the call, which returns nothing.
leave_call(c, e) == [c EXCEPT !.at = "raised", !.raised = Some(e)]

\* The request that is out fails and _make_request raises.
request_fails(failure) ==
  /\ client.op \in {"get_records", "get_all_records"}
  /\ client.at = "waiting"
  /\ client' = leave_call([client EXCEPT !.outcome = failure],
                          make_request_raises(failure))
  /\ UNCHANGED <<single_vars, calls, remote, server>>

NextFailures ==
  \/ NextClient
  \/ \E failure \in RequestFailures : request_fails(failure)

SpecFailures == InitClient /\ [][NextFailures]_vars

\* The retrieval runs in one thread that does nothing else and the remote
\* answers every request: a step that can be taken is taken.
SpecClientLive == SpecClient /\ WF_vars(NextClient)

\* ------------------------------------------------------------ sanitize_query
\* dangerous_chars, in the order of the list.
dangerous_chars ==
  << <<";">>, <<"-", "-">>, <<"/", "*">>, <<"*", "/">>,
     <<"x", "p", "_">>, <<"s", "p", "_">> >>

\* s.replace(old, ""): the occurrences of old are found from left to right,
\* without overlap, and left out.
RECURSIVE replace_with_empty(_, _)
replace_with_empty(s, old) ==
  IF Len(s) < Len(old) THEN s
  ELSE IF SubSeq(s, 1, Len(old)) = old
  THEN replace_with_empty(SubSeq(s, Len(old) + 1, Len(s)), old)
  ELSE <<s[1]>> \o replace_with_empty(Tail(s), old)

\* The loop over dangerous_chars from its k-th pass on: one replace per
\* entry, each on the text the pass before has left.
RECURSIVE sanitized_from(_, _)
sanitized_from(s, k) ==
  IF k > Len(dangerous_chars) THEN s
  ELSE sanitized_from(replace_with_empty(s, dangerous_chars[k]), k + 1)

\* sanitize_query(query): None for an absent or empty query.
sanitize_query(qry) ==
  IF Falsy(qry) THEN None ELSE Some(strip(sanitized_from(Val(qry), 1)))

\* The pieces a caller's text is put together from: a harmless character,
\* a space, the dangerous entries (the comment pair also as one piece) and
\* their halves.
SanitizeLexicon ==
  { txt_a, sp, <<";">>, <<"-">>, <<"-", "-">>, <<"/", "*">>, <<"*", "/">>,
    <<"/", "*", "*", "/">>, <<"x">>, <<"s">>, <<"p", "_">>,
    <<"x", "p", "_">>, <<"s", "p", "_">> }

\* result = sanitize_query(query).
Sanitize ==
  /\ pc = "build"
  /\ result' = [sanitized |-> sanitize_query(query)]
  /\ pc' = "done"
  /\ UNCHANGED <<query, pieces, default_limit, default_offset, raised, calls>>
  /\ UNCHANGED <<client_vars, server>>

NextSanitize ==
  \/ \E p \in SanitizeLexicon : AppendPiece(p)
  \/ Sanitize

SpecSanitize == Init /\ [][NextSanitize]_vars

\* --------------------------------------------------------- KintoneMCPServer
\* A dict is the set of its <<key, value>> items.
dict_keys(d) == {item[1] : item \in d}

\* d[key], for a key of d.
dict_item(d, key) == (CHOOSE item \in d : item[1] = key)[2]

\* d.get(key): None for a key that d does not have.
dict_get(d, key) ==
  IF key \in dict_keys(d) THEN Some(dict_item(d, key)) ELSE None

\* The if/elif chain of handle_call_tool in the order of the code: the name
\* each branch compares with (==) and the handler it calls.
call_tool_chain ==
  << <<"get_records", "_get_records">>,
     <<"get_all_records", "_get_all_records">>,
     <<"get_apps", "_get_apps">>,
     <<"get_record", "_get_record">>,
     <<"add_record", "_add_record">>,
     <<"add_records", "_add_records">>,
     <<"update_record", "_update_record">>,
     <<"update_records", "_update_records">>,
     <<"get_comments", "_get_comments">>,
     <<"add_comment", "_add_comment">>,
     <<"update_status", "_update_status">>,
     <<"update_statuses", "_update_statuses">>,
     <<"upload_file", "_upload_file">>,
     <<"download_file", "_download_file">>,
     <<"get_app", "_get_app">>,
     <<"get_form_fields", "_get_form_fields">>,
     <<"get_query_language_doc", "_get_query_language_doc">> >>

\* A variant of the advertised list that leaves out the last tool of the
\* chain.
list_tools_without_last ==
  [i \in 1..(Len(call_tool_chain) - 1) |-> call_tool_chain[i][1]]

\* The names of the Tool objects handle_list_tools returns, in the order of
\* its list.
list_tools ==
  << "get_records", "get_all_records", "get_apps", "get_record",
     "add_record", "add_records", "update_record", "update_records",
     "get_comments", "add_comment", "update_status", "update_statuses",
     "upload_file", "download_file", "get_app", "get_form_fields",
     "get_query_language_doc" >>

\* The branch of the chain that name takes: the handler of the first branch
\* whose name equals it, None for the else branch.
dispatch(name) ==
  LET taken == {i \in DOMAIN call_tool_chain : call_tool_chain[i][1] = name}
  IN  IF taken = {} THEN None
      ELSE Some(call_tool_chain[CHOOSE i \in taken : \A j \in taken : i <= j][2])

\* The keys a handler reads with arguments[key], in the order of its
\* statements; the first one that is missing raises KeyError.
required_arguments(handler) ==
  CASE handler = "_get_records" -> <<"app">>
    [] handler = "_get_all_records" -> <<"app">>
    [] handler = "_get_apps" -> <<>>
    [] handler = "_get_record" -> <<"app", "id">>
    [] handler = "_add_record" -> <<"app", "record">>
    [] handler = "_add_records" -> <<"app", "records">>
    [] handler = "_update_record" -> <<"app", "record">>
    [] handler = "_update_records" -> <<"app", "records">>
    [] handler = "_get_comments" -> <<"app", "record">>
    [] handler = "_add_comment" -> <<"app", "record", "text">>
    [] handler = "_update_status" -> <<"app", "id", "action">>
    [] handler = "_update_statuses" -> <<"app", "records">>
    [] handler = "_upload_file" -> <<"file_path">>
    [] handler = "_download_file" -> <<"file_key", "save_path">>
    [] handler = "_get_app" -> <<"id">>
    [] handler = "_get_form_fields" -> <<"app">>
    [] handler = "_get_query_language_doc" -> <<>>

\* The required keys that the arguments do not have, in that order.
missing_arguments(handler, arguments) ==
  SelectSeq(required_arguments(handler),
            LAMBDA key : key \notin dict_keys(arguments))

\* An exception object: its class, str(e), and the code and errors
\* attributes that a KintoneAPIError has (None for the other classes).
Exception(class, message) ==
  [class |-> class, message |-> message, code |-> None, errors |-> None]

\* str(KeyError(key)) is the repr of the key.
KeyError(key) == Exception("KeyError", "'" \o key \o "'")

\* `except KintoneAPIError` catches the exception.
IsKintoneAPIError(e) == e.class = "KintoneAPIError"

\* The most records one call of add_records, update_records or
\* update_statuses may carry (constants.py; the docstrings give its value).
MAX_BATCH_RECORDS == 100

\* ------------------------------------------- client methods behind the tools
\* A variant of the batch check that already refuses MAX_BATCH_RECORDS
\* records.
exceeds_batch_at_maximum(records) == Len(records) >= MAX_BATCH_RECORDS

\* len(records) > MAX_BATCH_RECORDS.
exceeds_batch(records) == Len(records) > MAX_BATCH_RECORDS

\* What a client method does up to its call of _make_request: it raises, or
\* it hands a request to _make_request.
Raises(e) == [raises |-> Some(e), request |-> None]

Requests(method, endpoint, json) ==
  [raises |-> None,
   request |-> Some([method |-> method, endpoint |-> endpoint, json |-> json])]

KintoneValidationError(message) == Exception("KintoneValidationError", message)

\* KintoneClient.add_records.
add_records(app, records) ==
  IF exceeds_batch(records)
  THEN Raises(KintoneValidationError(
         "Cannot add more than " \o ToString(MAX_BATCH_RECORDS)
           \o " records at once"))
  ELSE Requests("POST", "/records.json",
                {<<"app", app>>, <<"records", records>>})

\* The dict update_records makes of one UpdateRecordData: id, updateKey and
\* revision when they are not None, and record.
record_dict(record) ==
  {item \in record : item[1] \in {"id", "updateKey", "revision", "record"}}

\* KintoneClient.update_records.
update_records(app, records) ==
  IF exceeds_batch(records)
  THEN Raises(KintoneValidationError(
         "Cannot update more than " \o ToString(MAX_BATCH_RECORDS)
           \o " records at once"))
  ELSE Requests("PUT", "/records.json",
                {<<"app", app>>,
                 <<"records", [i \in 1..Len(records) |-> record_dict(records[i])]>>})

\* KintoneClient.update_statuses.
update_statuses(app, records) ==
  IF exceeds_batch(records)
  THEN Raises(KintoneValidationError(
         "Cannot update more than " \o ToString(MAX_BATCH_RECORDS)
           \o " record statuses at once"))
  ELSE Requests("PUT", "/records/status.json",
                {<<"app", app>>, <<"records", records>>})

\* A variant of the check of update_record that asks for both id and
\* update_key.
lacks_record_key_either(id, update_key) == IsNone(id) \/ IsNone(update_key)

\* id is None and update_key is None.
lacks_record_key(id, update_key) == IsNone(id) /\ IsNone(update_key)

\* {key: value} when the Optional value is not None, {} otherwise.
item_if_given(key, value) ==
  IF IsNone(value) THEN {} ELSE {<<key, Val(value)>>}

\* KintoneClient.update_record; id, update_key and revision are Optional.
update_record(app, record, id, update_key, revision) ==
  IF lacks_record_key(id, update_key)
  THEN Raises(KintoneValidationError(
         "Either id or update_key must be specified"))
  ELSE Requests("PUT", "/record.json",
                {<<"app", app>>, <<"record", record>>}
                  \cup item_if_given("id", id)
                  \cup item_if_given("updateKey", update_key)
                  \cup item_if_given("revision", revision))

\* The method and the endpoint of the request the client method behind a
\* handler makes.
request_line(handler) ==
  CASE handler = "_get_apps" -> <<"GET", "/apps.json">>
    [] handler = "_get_record" -> <<"GET", "/record.json">>
    [] handler = "_add_record" -> <<"POST", "/record.json">>
    [] handler = "_add_records" -> <<"POST", "/records.json">>
    [] handler = "_update_record" -> <<"PUT", "/record.json">>
    [] handler = "_update_records" -> <<"PUT", "/records.json">>
    [] handler = "_get_comments" -> <<"GET", "/record/comments.json">>
    [] handler = "_add_comment" -> <<"POST", "/record/comment.json">>
    [] handler = "_update_status" -> <<"PUT", "/record/status.json">>
    [] handler = "_update_statuses" -> <<"PUT", "/records/status.json">>
    [] handler = "_upload_file" -> <<"POST", "/file.json">>
    [] handler = "_download_file" -> <<"GET", "/file.json">>
    [] handler = "_get_app" -> <<"GET", "/app.json">>
    [] handler = "_get_form_fields" -> <<"GET", "/app/form/fields.json">>

\* UpdateRecordData(**rec) of _update_records raises pydantic's
\* ValidationError for an item without the required field record.
invalid_update_items(records) ==
  {i \in 1..Len(records) : "record" \notin dict_keys(records[i])}

\* The call of the client method a handler makes with the arguments it has
\* read.  For the methods with a check of their own the request is built as
\* the method builds it; for the others the body stands for the arguments
\* the handler passes on.
client_call(handler, arguments) ==
  CASE handler = "_add_records" ->
         add_records(dict_item(arguments, "app"), dict_item(arguments, "records"))
    [] handler = "_update_records" ->
         IF invalid_update_items(dict_item(arguments, "records")) # {}
         THEN Raises(Exception("ValidationError", "Field required: record"))
         ELSE update_records(dict_item(arguments, "app"),
                             dict_item(arguments, "records"))
    [] handler = "_update_statuses" ->
         update_statuses(dict_item(arguments, "app"),
                         dict_item(arguments, "records"))
    [] handler = "_update_record" ->
         update_record(dict_item(arguments, "app"), dict_item(arguments, "record"),
                       dict_get(arguments, "id"), dict_get(arguments, "update_key"),
                       dict_get(arguments, "revision"))
    [] OTHER ->
         Requests(request_line(handler)[1], request_line(handler)[2], arguments)

\* ------------------------------------------------------- handle_call_tool
\* TextContent(type="text", text=text).
TextContent(text) == [type |-> "text", text |-> text]

\* json.dumps(result, ensure_ascii=False, indent=2): the serialization of the
\* value as one text.
json_dumps(value) == ToString(value)

\* The text of the except branch for KintoneAPIError: the message, the code
\* when it is truthy and the errors when they are truthy.  The errors of an
\* exception are held as their JSON text.
api_error_text(e) ==
  "kintone API error: " \o e.message
    \o (IF ~IsNone(e.code) /\ Val(e.code) # ""
        THEN " (code: " \o Val(e.code) \o ")" ELSE "")
    \o (IF ~IsNone(e.errors) /\ Val(e.errors) # "{}"
        THEN "\nDetails: " \o Val(e.errors) ELSE "")

\* A variant of the except branches that catches KintoneAPIError only: any
\* other exception leaves handle_call_tool.
except_api_error_only(s) ==
  IF IsKintoneAPIError(Val(s.exception))
  THEN [s EXCEPT !.at = "done",
                 !.response = <<TextContent(api_error_text(Val(s.exception)))>>]
  ELSE [s EXCEPT !.at = "raised", !.raised = s.exception]

\* except KintoneAPIError ... except Exception ...: both branches return a
\* list of one TextContent; the second one's text is f"Error: {str(e)}".
except_branches(s) ==
  [s EXCEPT !.at = "done",
            !.response =
              <<TextContent(IF IsKintoneAPIError(Val(s.exception))
                            THEN api_error_text(Val(s.exception))
                            ELSE "Error: " \o Val(s.exception).message)>>]

\* The server between two tool calls; tools is the list the MCP client got
\* from handle_list_tools (empty before it asked).
IdleServer(tools) ==
  [at |-> "idle", tools |-> tools, name |-> "", arguments |-> None,
   handler |-> None, called |-> None, requests |-> <<>>, result |-> None,
   exception |-> None, response |-> <<>>, raised |-> None]

\* The exceptions a request of a tool can end with: KintoneAPIError with and
\* without code and errors (also with an empty code), KintoneNetworkError,
\* and the ValidationError of a response model that the response data do
\* not fit.
RequestErrors ==
  { [class |-> "KintoneAPIError", message |-> "HTTP 500: ", code |-> None,
     errors |-> None],
    [class |-> "KintoneAPIError", message |-> "Missing field", code |-> Some(""),
     errors |-> Some("{}")],
    [class |-> "KintoneAPIError", message |-> "Invalid input",
     code |-> Some("CB_VA01"), errors |-> Some("{\"app\": \"required\"}")],
    Exception("KintoneNetworkError", "Request failed: timeout"),
    Exception("ValidationError", "Field required") }

\* The values the arguments of a tool call are made of.
a_record == {<<"title", "x">>}

an_update_key == {<<"field", "code">>, <<"value", "k">>}

an_update_item == {<<"id", 7>>, <<"revision", 2>>, <<"record", a_record>>}

a_status_item == {<<"id", 7>>, <<"action", "submit">>}

\* The value a caller gives for a required key.
argument_value(key) ==
  CASE key = "app" -> 1
    [] key = "id" -> 7
    [] key = "record" -> a_record
    [] key = "records" -> <<a_record>>
    [] key = "text" -> "hello"
    [] key = "action" -> "submit"
    [] key = "file_path" -> "/tmp/a.txt"
    [] key = "file_key" -> "key"
    [] key = "save_path" -> "/tmp/b.txt"

\* The lengths of the batches a caller passes.
BatchLengths == {0, 1, MAX_BATCH_RECORDS, MAX_BATCH_RECORDS + 1}

Batch(n, item) == [i \in 1..n |-> item]

\* The dict with the required keys of the handler, all but the omitted one.
RequiredArguments(handler, omitted) ==
  {<<required_arguments(handler)[i], argument_value(required_arguments(handler)[i])>> :
     i \in {j \in DOMAIN required_arguments(handler) :
              required_arguments(handler)[j] # omitted}}

\* The arguments a caller passes with a registered tool name: None, the
\* empty dict, the required keys (all, or all but one), and for the tools
\* with optional keys or batches the combinations of these.
HandlerArguments(handler) ==
  {None, Some({})}
    \cup {Some(RequiredArguments(handler, omitted)) :
            omitted \in {""} \cup {required_arguments(handler)[i] :
                                     i \in DOMAIN required_arguments(handler)}}
    \cup (IF handler = "_update_record"
          THEN {Some(RequiredArguments(handler, "") \cup id \cup key \cup revision) :
                  id \in {{}, {<<"id", 0>>}, {<<"id", 7>>}},
                  key \in {{}, {<<"update_key", an_update_key>>}},
                  revision \in {{}, {<<"revision", 2>>}}}
          ELSE {})
    \cup (IF handler \in {"_add_records", "_update_records", "_update_statuses"}
          THEN {Some({<<"app", 1>>,
                      <<"records",
                        Batch(n, CASE handler = "_add_records" -> a_record
                                   [] handler = "_update_records" -> an_update_item
                                   [] handler = "_update_statuses" -> a_status_item)>>}) :
                  n \in BatchLengths}
          ELSE {})
    \cup (IF handler = "_update_records"
          THEN {Some({<<"app", 1>>,
                      <<"records", <<an_update_item, {<<"id", 7>>}>>>>})}
          ELSE {})
    \cup (IF handler = "_get_records"
          THEN {Some({<<"app", 1>>, <<"query", txt_a>>, <<"limit", 2>>,
                      <<"offset", 1>>})}
          ELSE {})

\* The names a caller asks for: the registered ones, and names that differ
\* from a registered one in letter case, by a trailing space or altogether.
ToolNames ==
  {list_tools[i] : i \in DOMAIN list_tools}
    \cup {call_tool_chain[i][1] : i \in DOMAIN call_tool_chain}
    \cup {"", "Get_Records", "get_records ", "delete_record"}

ToolArguments(name) ==
  IF IsNone(dispatch(name))
  THEN {None, Some({<<"app", 1>>})}
  ELSE HandlerArguments(Val(dispatch(name)))

\* The numbers of records the remote app holds when a tool is called.
ToolRemoteSizes == {0, 2}

InitTools ==
  /\ query = None
  /\ pieces = 0
  /\ default_limit = None
  /\ default_offset = None
  /\ result = NoResult
  /\ raised = None
  /\ pc = "build"
  /\ calls = NoCalls
  /\ client = NoClient
  /\ remote \in ToolRemoteSizes
  /\ server = IdleServer(<<>>)

\* handle_list_tools: the MCP client gets the advertised tools.
handle_list_tools ==
  /\ server.at = "idle"
  /\ server.tools = <<>>
  /\ server' = [server EXCEPT !.tools = list_tools]
  /\ UNCHANGED <<single_vars, calls, client_vars>>

\* handle_call_tool(name, arguments) up to the call of the handler: the
\* if/elif chain; its else branch returns f"Unknown tool: {name}".
handle_call_tool(name, arguments) ==
  /\ server.at = "idle"
  /\ server' =
       IF IsNone(dispatch(name))
       THEN [server EXCEPT !.at = "done", !.name = name,
                           !.arguments = arguments,
                           !.response = <<TextContent("Unknown tool: " \o name)>>]
       ELSE [server EXCEPT !.at = "handler", !.name = name,
                           !.arguments = arguments,
                           !.handler = dispatch(name)]
  /\ UNCHANGED <<single_vars, calls, client_vars>>

\* The handler from its first statement to the request of its client method
\* (or to its return, when it makes none): it reads its arguments, which
\* raises KeyError for a missing required key, and calls the client method,
\* which may raise before it sends anything.  readable: open(file_path)
\* of upload_file succeeds.  The arguments are `arguments or {}`.
run_handler(readable) ==
  /\ server.at = "handler"
  /\ LET handler == Val(server.handler)
         arguments == IF IsNone(server.arguments) THEN {}
                      ELSE Val(server.arguments)
         missing == missing_arguments(handler, arguments)
         call == client_call(handler, arguments)
     IN  IF missing # <<>>
         THEN /\ server' = [server EXCEPT !.at = "except",
                                          !.exception = Some(KeyError(missing[1]))]
              /\ UNCHANGED client
         ELSE IF handler = "_get_query_language_doc"
         THEN /\ server' = [server EXCEPT
                              !.at = "return",
                              !.result = Some([documentation |-> "kintone query language"])]
              /\ UNCHANGED client
         ELSE IF handler = "_get_records"
         THEN /\ server' = [server EXCEPT !.at = "client",
                                          !.called = Some(arguments)]
              /\ client' = NewClient("get_records", dict_get(arguments, "query"),
                                     dict_get(arguments, "limit"),
                                     dict_get(arguments, "offset"), 0)
         ELSE IF handler = "_get_all_records"
         THEN /\ server' = [server EXCEPT !.at = "client",
                                          !.called = Some(arguments)]
              /\ client' = NewClient("get_all_records",
                                     dict_get(arguments, "query"), None, None,
                                     default_batch_size)
         ELSE IF handler = "_upload_file" /\ ~readable
         THEN /\ server' = [server EXCEPT
                              !.at = "except", !.called = Some(arguments),
                              !.exception =
                                Some(Exception("FileNotFoundError",
                                               "No such file or directory"))]
              /\ UNCHANGED client
         ELSE IF handler = "_update_records"
                 /\ invalid_update_items(dict_item(arguments, "records")) # {}
         THEN /\ server' = [server EXCEPT !.at = "except",
                                          !.exception = call.raises]
              /\ UNCHANGED client
         ELSE IF ~IsNone(call.raises)
         THEN /\ server' = [server EXCEPT !.at = "except",
                                          !.called = Some(arguments),
                                          !.exception = call.raises]
              /\ UNCHANGED client
         ELSE /\ server' = [server EXCEPT
                              !.at = "waiting", !.called = Some(arguments),
                              !.requests = Append(server.requests, Val(call.request))]
              /\ UNCHANGED client
  /\ UNCHANGED <<single_vars, calls, remote>>

\* The result a handler makes of the response of its request.
handler_result(handler, arguments) ==
  IF handler = "_download_file"
  THEN [saved_to |-> dict_item(arguments, "save_path"), size |-> 3]
  ELSE [response_of |-> request_line(handler)]

\* The request of the tool is answered with a response its model accepts,
\* and the handler returns its result.  writable: open(save_path) of
\* download_file succeeds.
tool_response(writable) ==
  /\ server.at = "waiting"
  /\ server' =
       IF Val(server.handler) = "_download_file" /\ ~writable
       THEN [server EXCEPT !.at = "except",
                           !.exception =
                             Some(Exception("PermissionError", "Permission denied"))]
       ELSE [server EXCEPT
               !.at = "return",
               !.result = Some(handler_result(Val(server.handler),
                                              Val(server.called)))]
  /\ UNCHANGED <<single_vars, calls, client_vars>>

\* The request of the tool ends in the exception e.
tool_request_fails(e) ==
  /\ server.at = "waiting"
  /\ server' = [server EXCEPT !.at = "except", !.exception = Some(e)]
  /\ UNCHANGED <<single_vars, calls, client_vars>>

\* client.get_records or client.get_all_records has returned or raised:
\* _get_records and _get_all_records make their result of the records.
retrieval_ends ==
  /\ server.at = "client"
  /\ client.at \in {"done", "raised"}
  /\ server' =
       IF client.at = "raised"
       THEN [server EXCEPT
               !.at = "except",
               !.exception = Some(Exception(Val(client.raised), "Request failed"))]
       ELSE [server EXCEPT
               !.at = "return",
               !.result =
                 Some([records |-> client.returned,
                       totalCount |-> IF client.op = "get_all_records"
                                      THEN Some(Len(client.returned)) ELSE None])]
  /\ UNCHANGED <<single_vars, calls, client_vars>>

\* The return of the try block: one TextContent with the result as JSON.
return_text ==
  /\ server.at = "return"
  /\ server' = [server EXCEPT
                  !.at = "done",
                  !.response = <<TextContent(json_dumps(Val(server.result)))>>]
  /\ UNCHANGED <<single_vars, calls, client_vars>>

\* The except branches of handle_call_tool.
except_text ==
  /\ server.at = "except"
  /\ server' = except_branches(server)
  /\ UNCHANGED <<single_vars, calls, client_vars>>

NextTools ==
  \/ handle_list_tools
  \/ \E name \in ToolNames : \E arguments \in ToolArguments(name) :
       handle_call_tool(name, arguments)
  \/ \E readable \in BOOLEAN : run_handler(readable)
  \/ \E writable \in BOOLEAN : tool_response(writable)
  \/ \E e \in RequestErrors : tool_request_fails(e)
  \/ NextFailures
  \/ retrieval_ends
  \/ return_text
  \/ except_text

SpecTools == InitTools /\ [][NextTools]_vars

\* ================================================================ claims
\* The text of the query when it is a non-empty string, <<>> otherwise.
Text == IF IsNone(query) THEN <<>> ELSE Val(query)

Called == pc = "done"

\* No match of any of the three patterns in q.
NoClause(q) ==
  /\ IsNone(re_search("order", q))
  /\ IsNone(re_search("limit", q))
  /\ IsNone(re_search("offset", q))

\* b is q with leading and trailing whitespace removed and nothing else
\* changed (stated without strip()).
IsTrimOf(b, q) ==
  /\ \E i \in 1..(Len(q) + 1), j \in 0..Len(q) :
       /\ b = SubSeq(q, i, j)
       /\ \A k \in 1..Len(q) : (k < i \/ k > j) => IsSpace(q[k])
  /\ b # <<>> => ~IsSpace(b[1]) /\ ~IsSpace(b[Len(b)])

\* The value of the query's first limit (offset) clause, None without one.
LimitClause(q) == number_of(q, re_search("limit", q))

OffsetClause(q) == number_of(q, re_search("offset", q))

\* C1: for an absent (None) or empty query and any defaults, the result is
\* base_query = "", order_by = None, limit = default_limit and
\* offset = default_offset.
C1_EmptyQueryGivesDefaults ==
  (Called /\ Falsy(query)) =>
    /\ result.base_query = <<>>
    /\ result.order_by = None
    /\ result.limit = default_limit
    /\ result.offset = default_offset

C1_Witness ==
  /\ Called
  /\ query = Some(<<>>)
  /\ default_limit = Some(2)
  /\ default_offset = None
  /\ result.limit = Some(2)

\* C2: the final limit follows the three-way rule: with a limit clause of
\* value q and a default d it is min(q, d), never more than d; with a clause
\* and no default it is q; without a clause it is the default unchanged.
C2_FinalLimitRule ==
  Called =>
    LET ql == LimitClause(Text)
    IN  /\ (~IsNone(ql) /\ ~IsNone(default_limit)) =>
              /\ ~IsNone(result.limit)
              /\ Val(result.limit) <= Val(default_limit)
              /\ Val(result.limit) <= Val(ql)
              /\ Val(result.limit) \in {Val(ql), Val(default_limit)}
        /\ (~IsNone(ql) /\ IsNone(default_limit)) => result.limit = ql
        /\ IsNone(ql) => result.limit = default_limit

C2_Witness ==
  /\ Called
  /\ LimitClause(Text) = Some(3)
  /\ default_limit = Some(2)
  /\ result.limit = Some(2)

\* C3: the final offset is the value of the query's offset clause whenever
\* there is one, whatever the default and with no ceiling, and the default
\* (possibly None) otherwise.
C3_FinalOffsetRule ==
  Called =>
    LET qo == OffsetClause(Text)
    IN  result.offset = IF IsNone(qo) THEN default_offset ELSE qo

C3_Witness ==
  /\ Called
  /\ OffsetClause(Text) = Some(3)
  /\ default_offset = Some(0)
  /\ result.offset = Some(3)

\* C4: a non-empty query with no match of the order-by, limit or offset
\* pattern comes back as base_query with only its leading and trailing
\* whitespace trimmed, order_by = None and the defaults.
C4_PassThrough ==
  (Called /\ ~Falsy(query) /\ NoClause(Text)) =>
    /\ IsTrimOf(result.base_query, Text)
    /\ result.order_by = None
    /\ result.limit = default_limit
    /\ result.offset = default_offset

\* A query that holds a clause keyword without its number and ends in
\* whitespace.
C4_Witness ==
  /\ Called
  /\ ~Falsy(query)
  /\ NoClause(Text)
  /\ IsSpace(Text[Len(Text)])
  /\ \E i \in 1..Len(Text) : Literal(Text, i, kw_limit) # 0
  /\ Len(result.base_query) + 1 = Len(Text)

\* The characters of q at the positions ps.
TextAt(q, ps) == [k \in 1..Len(ps) |-> q[ps[k]]]

\* The positions of q the match m covers.
Span(m) == IF IsNone(m) THEN {} ELSE Val(m).start..(Val(m).end - 1)

\* The positions of q that are in base_query.
KeptSet(q) ==
  LET ps == base_positions(q) IN {ps[k] : k \in 1..Len(ps)}

\* C7: base_query never contains the substrings that matched the order-by,
\* limit or offset patterns: no character of the order-by match, of the limit
\* match the limit value was read from, or of the offset match the offset
\* value was read from is left in base_query.
C7_MatchedTextRemoved ==
  (Called /\ ~Falsy(query)) =>
    /\ result.base_query = TextAt(Text, base_positions(Text))
    /\ KeptSet(Text) \cap Span(order_match(Text)) = {}
    /\ KeptSet(Text) \cap Span(limit_match(Text)) = {}
    /\ KeptSet(Text) \cap Span(offset_match(Text)) = {}

\* C10: a returned order_by is a contiguous substring of the query (casing
\* and inner whitespace as the caller wrote them), begins with the keyword
\* "order" in any letter case, and has no leading or trailing whitespace.
C10_OrderByIsTrimmedSubstring ==
  (Called /\ ~IsNone(result.order_by)) =>
    LET ob == Val(result.order_by)
    IN  /\ ob # <<>>
        /\ \E i \in 1..Len(Text) : SubSeq(Text, i, i + Len(ob) - 1) = ob
        /\ Literal(ob, 1, kw_order) # 0
        /\ ~IsSpace(ob[1])
        /\ ~IsSpace(ob[Len(ob)])

\* An order_by in the caller's mixed case with a tab inside.
C10_Witness ==
  /\ Called
  /\ ~IsNone(result.order_by)
  /\ Val(result.order_by)[1] = "O"
  /\ \E k \in 1..Len(Val(result.order_by)) : Val(result.order_by)[k] = "\t"

\* ------------------------------------ claims on queries with trailing clauses
\* The order-by list as the documentation describes it: field tokens
\* separated by commas, each optionally followed by asc or desc.  A field
\* token is a run of characters that are neither whitespace nor a comma.
RECURSIVE FieldEnd(_, _)
FieldEnd(s, i) ==
  IF i <= Len(s) /\ ~IsSpace(s[i]) /\ s[i] # "," THEN FieldEnd(s, i + 1) ELSE i

\* The index after the list that starts with a field at index i.
RECURSIVE ListEnd(_, _)
ListEnd(s, i) ==
  LET e == Direction(s, FieldEnd(s, i))
      c == RunEnd(s, e, "s")
      f == RunEnd(s, c + 1, "s")
  IN  IF c <= Len(s) /\ s[c] = "," /\ FieldEnd(s, f) > f
      THEN ListEnd(s, f)
      ELSE e

\* The index of the first field of the order-by clause whose leading
\* whitespace starts at index i, or 0 when no clause starts there.
ListStart(s, i) ==
  LET o == SpaceKeyword(s, i, kw_order)
      b == IF o = 0 THEN 0 ELSE SpaceKeyword(s, o, kw_by)
      f == IF b = 0 THEN 0 ELSE RunEnd(s, b, "s")
  IN  IF b = 0 \/ f = b \/ FieldEnd(s, f) = f THEN 0 ELSE f

ClauseStarts(s) == {i \in 1..Len(s) : IsSpace(s[i]) /\ ListStart(s, i) # 0}

FirstClauseStart(s) == CHOOSE i \in ClauseStarts(s) : \A j \in ClauseStarts(s) : i <= j

\* C5: for a query whose order-by clause is a comma-separated list of one
\* or more field tokens, each with or without asc/desc, order_by is the whole
\* list, from the keyword "order" through the last field and its direction,
\* and none of the listed fields is left in base_query.
C5_WholeListCaptured ==
  (Called /\ ClauseStarts(Text) # {}) =>
    LET i == FirstClauseStart(Text)
        e == ListEnd(Text, ListStart(Text, i))
    IN  /\ result.order_by = Some(SubSeq(Text, RunEnd(Text, i, "s"), e - 1))
        /\ KeptSet(Text) \cap (i..(e - 1)) = {}

\* The quoted string literals of q (from an opening quote to the next quote)
\* and its innermost parenthesized groups, as sets of positions.
QuotesBefore(q, i) == Cardinality({k \in 1..(i - 1) : q[k] = "\""})

QuotedSpans(q) ==
  { ij[1]..ij[2] :
      ij \in { xy \in (1..Len(q)) \X (1..Len(q)) :
                 /\ xy[1] < xy[2]
                 /\ q[xy[1]] = "\""
                 /\ q[xy[2]] = "\""
                 /\ QuotesBefore(q, xy[1]) % 2 = 0
                 /\ QuotesBefore(q, xy[2]) = QuotesBefore(q, xy[1]) + 1 } }

GroupSpans(q) ==
  { ij[1]..ij[2] :
      ij \in { xy \in (1..Len(q)) \X (1..Len(q)) :
                 /\ xy[1] < xy[2]
                 /\ q[xy[1]] = "("
                 /\ q[xy[2]] = ")"
                 /\ \A k \in (xy[1] + 1)..(xy[2] - 1) : q[k] \notin {"(", ")"} } }

\* C6: parenthesized groups and quoted string literals of the predicate are
\* in base_query byte for byte, also when the text inside a quoted literal
\* reads like an order-by, limit or offset clause.
C6_LiteralsAndGroupsPreserved ==
  (Called /\ ~Falsy(query)) =>
    /\ result.base_query = TextAt(Text, base_positions(Text))
    /\ \A span \in QuotedSpans(Text) \cup GroupSpans(Text) : span \subseteq KeptSet(Text)

\* p ends in an order-by that still waits for its first field.
EndsInOrderBy(p) ==
  \E i \in 1..Len(p) :
    LET o == SpaceKeyword(p, i, kw_order)
        b == IF o = 0 THEN 0 ELSE SpaceKeyword(p, o, kw_by)
    IN  b # 0 /\ RunEnd(p, b, "s") = Len(p) + 1

\* The statement of C8 for the predicates p of the set P.
CombinedClausesFor(P) ==
  \A p \in P, d \in {<<>>, sp \o kw_desc}, n \in Numerals, m \in Numerals :
    LET clause == kw_order \o sp \o kw_by \o sp \o txt_a \o d
    IN  (/\ Called
         /\ Text = p \o sp \o clause \o txt_limit \o sp \o n \o txt_offset \o sp \o m
         /\ NoClause(p)) =>
          /\ IsTrimOf(result.base_query, p)
          /\ result.order_by = Some(clause)
          /\ result.limit =
               Some(IF IsNone(default_limit) \/ int(n) <= Val(default_limit)
                    THEN int(n) ELSE Val(default_limit))
          /\ result.offset = Some(int(m))

\* C8 as stated: for P + ' order by F [asc|desc]' + ' limit N' + ' offset M'
\* with no clause pattern in P, base_query is P trimmed, order_by the
\* order-by clause, limit min(N, D) and offset M.
C8_CombinedClauses == CombinedClausesFor(Predicates)

\* C8 as amended: the same, for every such P that does not end in an
\* unfinished order-by (whitespace, "order", whitespace, "by" and nothing but
\* whitespace after it).
C8_CombinedClausesAmended ==
  CombinedClausesFor({p \in Predicates : ~EndsInOrderBy(p)})

\* The combined query of a predicate that ends in whitespace, with a limit
\* above the default.
C8_Witness ==
  /\ Called
  /\ Text = txt_a \o tab \o txt_order_by \o sp \o txt_a \o sp \o kw_desc
              \o txt_limit \o sp \o txt_03 \o txt_offset \o sp \o txt_1
  /\ default_limit = Some(2)
  /\ result.base_query = txt_a
  /\ result.limit = Some(2)
  /\ result.offset = Some(1)

\* The result for the query in lower case.
LowerResult == parse_kintone_query(Some(LowerStr(Text)), default_limit, default_offset)

\* Limit, offset and the presence of order_by in r are those of the result l
\* for the lower-case query, and order_by is the caller's text: equal to the
\* lower-case order_by up to letter case and a substring of the query.
SameClauses(r, l) ==
  /\ r.limit = l.limit
  /\ r.offset = l.offset
  /\ IsNone(r.order_by) = IsNone(l.order_by)
  /\ ~IsNone(r.order_by) =>
       /\ LowerStr(Val(r.order_by)) = Val(l.order_by)
       /\ \E i \in 1..Len(Text) :
            SubSeq(Text, i, i + Len(Val(r.order_by)) - 1) = Val(r.order_by)

\* C9 as stated: the letter case of the keywords does not change what is
\* recognized: base_query, limit and offset are identical to those of the
\* lower-case query and order_by differs from it in letter case only.
C9_CaseInsensitive ==
  (Called /\ ~Falsy(query)) =>
    LET l == LowerResult
    IN  SameClauses(result, l) /\ result.base_query = l.base_query

\* C9 as amended: base_query equals that of the lower-case query up to
\* letter case (a keyword that stays in base_query keeps the caller's
\* casing); limit, offset and order_by as stated.
C9_CaseInsensitiveAmended ==
  (Called /\ ~Falsy(query)) =>
    LET l == LowerResult
    IN  SameClauses(result, l) /\ LowerStr(result.base_query) = l.base_query

\* All three clauses in upper or mixed case.
C9_Witness ==
  /\ Called
  /\ Text = txt_a \o txt_ORDER_By \o sp \o txt_a \o sp \o txt_Asc
              \o sp \o txt_LIMIT \o sp \o txt_1 \o sp \o txt_OffSet \o sp \o txt_03
  /\ result.base_query = txt_a
  /\ result.order_by = Some(txt_ORDER \o sp \o txt_By \o sp \o txt_a \o sp \o txt_Asc)
  /\ result.limit = Some(1)
  /\ result.offset = Some(3)

\* ---------------------------------------------------------------------
\* The digits of the limit and the offset numeral the call converts.
ConvertedNumerals(q) ==
  {group1(q, Val(m)) : m \in {limit_match(q), offset_match(q)} \ {None}}

ResultFields == {"base_query", "order_by", "limit", "offset"}

Returned == Called /\ raised = None /\ DOMAIN result = ResultFields

\* C11 (as stated): for every string and for an absent query, with any
\* combination of defaults, the call returns a result with the four fields
\* and never raises.
C11_Total == Called => Returned

\* C11 (amended): the call returns a result with the four fields and does
\* not raise whenever no limit or offset numeral it converts has more than
\* 4300 digits.
C11_TotalUpToDigitLimit ==
  (Called /\ \A d \in ConvertedNumerals(Text) : Len(d) <= 4300) => Returned

\* A numeral of exactly 4300 digits was converted and the call returned.
C11_Witness ==
  /\ Returned
  /\ \E d \in ConvertedNumerals(Text) : Len(d) = 4300
  /\ result.limit \in {Some(0), Some(1)}

\* ---------------------------------------------------------------------
\* The occurrences of the pattern named p in q from index i on: one match
\* after the other, each searched from the end of the one before.
RECURSIVE Occurrences(_, _, _)
Occurrences(p, q, i) ==
  LET m == search_from(p, q, i)
  IN  IF IsNone(m) THEN <<>>
      ELSE <<Val(m)>> \o Occurrences(p, q, Val(m).end)

\* The occurrences of a limit or offset clause that share no character with
\* the order-by clause.
ClauseOccurrences(p, q) ==
  SelectSeq(Occurrences(p, q, 1),
            LAMBDA m : Span(Some(m)) \cap Span(order_match(q)) = {})

\* The positions of an occurrence from its keyword to its last digit.
ClauseText(q, m) == RunEnd(q, m.start, "s")..(m.end - 1)

\* The value the kind named p has in the result.
Reported(p) == IF p = "limit" THEN result.limit ELSE result.offset

\* C12: when a query holds two or more limit clauses (offset clauses), the
\* reported value is that of the first one (no defaults given), the first one
\* is removed from base_query and every later one is left in base_query as it
\* is, without raising.
C12_FirstOccurrenceOnly ==
  (Called /\ default_limit = None /\ default_offset = None) =>
    \A p \in {"limit", "offset"} :
      LET occ == ClauseOccurrences(p, Text)
      IN  Len(occ) >= 2 =>
            /\ raised = None
            /\ Reported(p) = Some(int(group1(Text, occ[1])))
            /\ ClauseText(Text, occ[1]) \cap KeptSet(Text) = {}
            /\ \A k \in 2..Len(occ) :
                 ClauseText(Text, occ[k]) \subseteq KeptSet(Text)

\* ---------------------------------------------------------------------
\* The result of the call with the arguments of frame f, run alone.
Alone(f) == parse_kintone_query(f.query, f.default_limit, f.default_offset)

\* C13: the result of a call depends only on its three arguments: however
\* the statements of concurrent calls interleave, each call returns what the
\* same call returns when it runs alone.
C13_SameResultAsAlone ==
  \A c \in Callers :
    calls[c].at = "done" =>
      calls[c].raised = None /\ calls[c].returned = Alone(calls[c])

\* Two calls with different arguments have returned different results while
\* their statements were interleaved.
C13_Witness ==
  /\ \A c \in Callers : calls[c].at = "done"
  /\ \E c, d \in Callers :
       /\ calls[c].query # calls[d].query
       /\ ~Falsy(calls[c].query) /\ ~Falsy(calls[d].query)
       /\ calls[c].returned # calls[d].returned
       /\ calls[c].returned.base_query # <<>>

\* ---------------------------------------------------------------------
\* A request has been handed to _make_request.
Sent == client.op # "none" /\ ~IsNone(client.params)

SentQuery == Val(client.params).query

\* A clause of the keyword kw stands at index i of s: the keyword, at the
\* start of s or behind whitespace, then whitespace and a number.
ClauseAt(s, i, kw) ==
  LET k == Literal(s, i, kw)
      w == RunEnd(s, k, "s")
  IN  /\ i = 1 \/ IsSpace(s[i - 1])
      /\ k # 0
      /\ w > k
      /\ RunEnd(s, w, "d") > w

ClauseCount(s, kw) == Cardinality({i \in 1..Len(s) : ClauseAt(s, i, kw)})

\* s ends in the literal suffix "limit <n> offset <m>"; before is the text in
\* front of it.
IsSuffixed(s, before) ==
  \E n, m \in 0..(2 * MAX_RECORDS_PER_REQUEST) :
    LET suffix == kw_limit \o sp \o str(n) \o sp \o kw_offset \o sp \o str(m)
    IN  s = (IF before = <<>> THEN suffix ELSE before \o sp \o suffix)

\* base_query and, when there is one, order_by of the caller's query.
Extracted(qry) ==
  LET r == parse_kintone_query(qry, None, None)
  IN  IF IsNone(r.order_by) THEN r.base_query
      ELSE IF r.base_query = <<>> THEN Val(r.order_by)
      ELSE r.base_query \o sp \o Val(r.order_by)

\* C14: the query parameter a retrieval sends is the base_query of the
\* caller's query (plus its order_by) followed by one "limit <n> offset <m>"
\* suffix, and holds exactly one limit clause and one offset clause, also
\* when the caller's query has such clauses of its own.
C14_OneLimitOneOffset ==
  Sent =>
    /\ IsSuffixed(SentQuery, Extracted(client.query))
    /\ ClauseCount(SentQuery, kw_limit) = 1
    /\ ClauseCount(SentQuery, kw_offset) = 1

\* ---------------------------------------------------------------------
InAll == client.op = "get_all_records"

InTool == client.op = "get_records"

\* The page size the last request asked the API for.
RequestedSize == Val(client.params).size

\* C15: get_all_records stops exactly at the first page that is empty or
\* shorter than the page size requested from the API: when it has returned,
\* the last page was such a page, and while it goes on (about to send or
\* waiting for the next page) the last page was a full one.
C15_StopsAtFirstShortPage ==
  (InAll /\ client.received >= 1) =>
    /\ client.at = "done" => Len(client.records) < RequestedSize
    /\ client.at \in {"loop", "waiting"} =>
         Len(client.records) = RequestedSize

\* s ends with t.
EndsWith(s, t) ==
  Len(t) <= Len(s) /\ SubSeq(s, Len(s) - Len(t) + 1, Len(s)) = t

\* C16: in get_all_records a request is sent only after the response to the
\* one before was received, and the k-th request (k >= 0) carries the offset
\* k * batch_size.
C16_SequentialOffsets ==
  (InAll /\ Sent) =>
    /\ client.sent - client.received = (IF client.at = "waiting" THEN 1 ELSE 0)
    /\ EndsWith(SentQuery,
                sp \o kw_offset \o sp \o
                  str((client.sent - 1) * client.batch_size))

\* The third request of a retrieval in batches of 499 is out, with offset
\* 998, and two responses have come in.
C16_Witness ==
  /\ InAll /\ client.at = "waiting"
  /\ client.batch_size = 499
  /\ client.sent = 3 /\ client.received = 2
  /\ EndsWith(SentQuery, <<"9", "9", "8">>)

\* C17: with a remote that holds N records and answers each request with the
\* slice [offset, offset + size), get_all_records returns exactly the N
\* records, each once and in the remote's order, for every batch_size >= 1.
C17_ReturnsAllRecords ==
  (InAll /\ client.at = "done") =>
    client.returned = [k \in 1..remote |-> k]

\* The limit and the offset get_records is called with.
LimitArgument ==
  IF InAll THEN client.batch_size
  ELSE IF IsNone(client.limit) THEN 100 ELSE Val(client.limit)

OffsetArgument ==
  IF InAll THEN (client.sent - 1) * client.batch_size
  ELSE IF IsNone(client.offset_argument) THEN 0
  ELSE Val(client.offset_argument)

\* C18: every request get_records builds has size = min(limit, 500), which
\* is at most 500, and its query ends in "limit <size> offset <offset>" with
\* the offset argument; the get_records tool calls it with limit 100 and
\* offset 0 when the caller gives none.
C18_RequestWithinMaximum ==
  Sent =>
    /\ RequestedSize = (IF LimitArgument <= 500 THEN LimitArgument ELSE 500)
    /\ RequestedSize <= 500
    /\ EndsWith(SentQuery,
                kw_limit \o sp \o str(RequestedSize) \o sp \o kw_offset \o sp \o
                  str(OffsetArgument))

\* The get_records tool, called with limit 501 and no offset, has sent a
\* request of size 500 with offset 0.
C18_Witness ==
  /\ InTool /\ Sent
  /\ client.limit = Some(501)
  /\ IsNone(client.offset_argument)
  /\ RequestedSize = 500
  /\ EndsWith(SentQuery, kw_limit \o sp \o str(500) \o sp \o kw_offset \o sp \o str(0))

\* ---------------------------------------------------------------------
\* The query with its first order-by match deleted.
WithoutOrderBy(q) == Cut(q, re_search("order", q))

\* C19: the reported limit is parsed from the first limit match in the text
\* that remains after the order-by match has been removed: it is the limit
\* the same call reports for the query with the order-by clause deleted.
C19_LimitReadAfterOrderByRemoval ==
  (Called /\ ~Falsy(query) /\ raised = None) =>
    LET rest == WithoutOrderBy(Text)
    IN  result.limit =
          final_limit(number_of(rest, re_search("limit", rest)), default_limit)

\* The sequential procedure on the text q: find and remove the first match
\* of the pattern named p1, then that of p2; the two values are read from
\* the matches that are removed.
Sequential(q, p1, p2) ==
  LET m1 == re_search(p1, q)
      t1 == Cut(q, m1)
      m2 == re_search(p2, t1)
      t2 == Cut(t1, m2)
  IN  [text |-> t2, first |-> number_of(q, m1), second |-> number_of(t1, m2)]

LoopText(p, q) == IF p = "offset" THEN AfterOrder(q) ELSE AfterOffset(q)

RemovedMatch(p, q) == re_search(p, LoopText(p, q))

\* C21: value extraction and text removal agree: a limit (offset) value is
\* reported from the query (no defaults given) if and only if the loop removes
\* a limit (offset) clause from the text, and the digits of the removed clause
\* give the reported value.
C21_ExtractionAgreesWithRemoval ==
  (Called /\ ~Falsy(query) /\ raised = None
     /\ default_limit = None /\ default_offset = None) =>
    \A p \in {"limit", "offset"} :
      LET m == RemovedMatch(p, Text)
      IN  /\ IsNone(Reported(p)) = IsNone(m)
          /\ ~IsNone(m) =>
               Reported(p) = Some(int(group1(LoopText(p, Text), Val(m))))

\* ---------------------------------------------------------------------
\* C22: get_all_records terminates: against a remote that holds finitely
\* many records and answers each request with the slice
\* [offset, offset + size), a started retrieval eventually returns, for every
\* batch_size >= 1.
C22_Terminates == (InAll /\ client.batch_size >= 1) ~> (InAll /\ client.at = "done")

\* A retrieval in batches of one record has returned the three records of
\* the remote after three full pages and an empty one.
C22_Witness ==
  /\ InAll /\ client.at = "done"
  /\ client.batch_size = 1 /\ remote = 3
  /\ client.sent = 4 /\ client.received = 4
  /\ client.records = <<>>
  /\ Len(client.returned) = 3

\* ---------------------------------------------------------------------
\* C23: against a remote of N records and with 1 <= batch_size <= 500,
\* get_all_records issues exactly N \div batch_size + 1 page requests: never
\* more, and exactly that many when it returns; when N is a positive multiple
\* of batch_size the last request is answered with an empty page, and for
\* N = 0 there is exactly one request.
C23_RequestCount ==
  (InAll /\ client.batch_size >= 1 /\ client.batch_size <= 500) =>
    /\ client.sent <= remote \div client.batch_size + 1
    /\ client.at = "done" =>
         /\ client.sent = remote \div client.batch_size + 1
         /\ client.received = client.sent
         /\ (remote > 0 /\ remote % client.batch_size = 0) =>
              client.records = <<>>
         /\ remote = 0 => client.sent = 1

\* A retrieval of 1000 records in batches of 500 has returned after three
\* requests, the third answered with an empty page.
C23_Witness ==
  /\ InAll /\ client.at = "done"
  /\ client.batch_size = 500 /\ remote = 1000
  /\ client.sent = 3
  /\ client.records = <<>>
  /\ Len(client.all_records) = 1000

\* ---------------------------------------------------------------------
\* A page request of get_all_records has failed.
PageRequestFailed == InAll /\ client.outcome # "ok"

\* C24: when a page request of get_all_records raises (API error or network
\* error), the exception propagates to the caller, the records accumulated
\* from earlier pages are not returned, and no further page is requested:
\* the failed request stays the last one.
C24_ErrorPropagates ==
  /\ [](PageRequestFailed =>
          /\ client.at = "raised"
          /\ client.raised =
               Some(IF client.outcome = "http_error" THEN "KintoneAPIError"
                    ELSE "KintoneNetworkError")
          /\ client.returned = <<>>
          /\ client.sent = client.received + 1)
  /\ [][PageRequestFailed => client' = client]_vars

\* The third page request has failed with a network error after two full
\* pages were accumulated; nothing is returned.
C24_Witness ==
  /\ PageRequestFailed
  /\ client.outcome = "network_error"
  /\ client.raised = Some("KintoneNetworkError")
  /\ client.sent = 3 /\ client.received = 2
  /\ Len(client.all_records) = 2 * client.batch_size
  /\ client.returned = <<>>

\* ---------------------------------------------------------------------
\* The names the branches of handle_call_tool compare with.
RegisteredNames == {call_tool_chain[i][1] : i \in DOMAIN call_tool_chain}

\* text begins with prefix.
StartsWith(text, prefix) ==
  Len(text) >= Len(prefix) /\ SubSeq(text, 1, Len(prefix)) = prefix

\* The text of the one item handle_call_tool has returned.
ResponseText == server.response[1].text

\* C25: handle_call_tool never raises to the protocol layer; for every tool
\* name and argument map it returns a list of exactly one text item: the
\* JSON of the result on success, "Unknown tool: <name>" when the name equals
\* no registered name (compared exactly), a "kintone API error: ..." message
\* when the handler raised KintoneAPIError, and "Error: ..." with the message
\* of any other exception, a missing required argument included.
C25_OneTextItem ==
  /\ server.at # "raised"
  /\ IsNone(server.raised)
  /\ server.at = "done" =>
       /\ Len(server.response) = 1
       /\ server.response[1].type = "text"
       /\ IF server.name \notin RegisteredNames
          THEN ResponseText = "Unknown tool: " \o server.name
          ELSE IF IsNone(server.exception)
          THEN /\ ~IsNone(server.result)
               /\ ResponseText = ToString(Val(server.result))
          ELSE IF Val(server.exception).class = "KintoneAPIError"
          THEN StartsWith(ResponseText,
                          "kintone API error: " \o Val(server.exception).message)
          ELSE ResponseText = "Error: " \o Val(server.exception).message

\* get_records was called without arguments: the KeyError of the missing
\* app has become the one text item "Error: 'app'".
C25_Witness ==
  /\ server.at = "done"
  /\ server.name = "get_records"
  /\ IsNone(server.arguments)
  /\ Val(server.exception).class = "KeyError"
  /\ server.response = <<[type |-> "text", text |-> "Error: 'app'"]>>

\* ---------------------------------------------------------------------
\* The names the MCP client got from handle_list_tools.
Advertised == {server.tools[i] : i \in DOMAIN server.tools}

\* C26: the tool names handle_list_tools advertises are the tool names
\* handle_call_tool dispatches to a handler: every advertised tool can be
\* called, no callable tool is unadvertised, and a call reaches the handler
\* of its name exactly when the name is advertised.
C26_AdvertisedEqualsCallable ==
  server.tools # <<>> =>
    /\ Advertised = {name \in ToolNames : ~IsNone(dispatch(name))}
    /\ Advertised = RegisteredNames
    /\ server.at # "idle" =>
         /\ server.name \in Advertised <=> ~IsNone(server.handler)
         /\ ~IsNone(server.handler) => Val(server.handler) = "_" \o server.name
         /\ server.name \notin Advertised =>
              server.response = <<[type |-> "text",
                                   text |-> "Unknown tool: " \o server.name]>>

\* After the list was asked for, the last tool of the list was called and
\* has returned its result.
C26_Witness ==
  /\ server.tools # <<>>
  /\ server.at = "done"
  /\ server.name = server.tools[Len(server.tools)]
  /\ server.name = "get_query_language_doc"
  /\ IsNone(server.exception)
  /\ ~IsNone(server.result)

\* ---------------------------------------------------------------------
\* The handler has called the client method of a batch tool; CalledBatch is
\* the list of records it passed.
BatchCalled ==
  /\ server.handler \in {Some("_add_records"), Some("_update_records"),
                         Some("_update_statuses")}
  /\ ~IsNone(server.called)

CalledBatch == dict_item(Val(server.called), "records")

\* C27: add_records, update_records and update_statuses reject a batch of
\* more than 100 records with KintoneValidationError before any HTTP request
\* is sent, and send exactly one request for a batch of at most 100 records.
C27_BatchLimit ==
  BatchCalled =>
    IF Len(CalledBatch) > 100
    THEN /\ server.requests = <<>>
         /\ ~IsNone(server.exception)
         /\ Val(server.exception).class = "KintoneValidationError"
    ELSE /\ Len(server.requests) = 1
         /\ Len(dict_item(server.requests[1].json, "records")) = Len(CalledBatch)

\* update_statuses was called with 101 records: no request, and the tool
\* call has answered with the text of the KintoneValidationError.
C27_Witness ==
  /\ BatchCalled
  /\ server.name = "update_statuses"
  /\ Len(CalledBatch) = 101
  /\ server.requests = <<>>
  /\ server.at = "done"
  /\ ResponseText = "Error: Cannot update more than 100 record statuses at once"

\* ---------------------------------------------------------------------
\* The handler has called client.update_record; Given(key) says that the
\* caller's arguments have the key.
UpdateRecordCalled ==
  server.handler = Some("_update_record") /\ ~IsNone(server.called)

Given(key) == key \in dict_keys(Val(server.called))

\* C28: update_record raises KintoneValidationError and sends no request
\* when neither id nor update_key is given; when at least one is given it
\* sends one request whose body has "id" iff id was given, "updateKey" iff
\* update_key was given and "revision" iff revision was given.
C28_UpdateRecordBody ==
  UpdateRecordCalled =>
    IF ~Given("id") /\ ~Given("update_key")
    THEN /\ server.requests = <<>>
         /\ ~IsNone(server.exception)
         /\ Val(server.exception).class = "KintoneValidationError"
    ELSE /\ Len(server.requests) = 1
         /\ LET body == dict_keys(server.requests[1].json)
            IN  /\ "id" \in body <=> Given("id")
                /\ "updateKey" \in body <=> Given("update_key")
                /\ "revision" \in body <=> Given("revision")

\* update_record was called with id 0 and a revision and without
\* update_key: the request body has id and revision and no updateKey.
C28_Witness ==
  /\ UpdateRecordCalled
  /\ dict_get(Val(server.called), "id") = Some(0)
  /\ ~Given("update_key") /\ Given("revision")
  /\ Len(server.requests) = 1
  /\ server.requests[1].json =
       {<<"app", 1>>, <<"record", {<<"title", "x">>}>>, <<"id", 0>>,
        <<"revision", 2>>}

\* ---------------------------------------------------------------------
\* t occurs in s as a contiguous substring.
Contains(s, t) ==
  \E i \in 1..(Len(s) - Len(t) + 1) : SubSeq(s, i, i + Len(t) - 1) = t

\* C29: for every input string the result of sanitize_query contains none
\* of the substrings ';', '--', '/*', '*/', 'xp_', 'sp_'; for an absent or
\* empty query the result is None.
C29_NoDangerousSubstring ==
  Called =>
    IF Falsy(query) THEN result.sanitized = None
    ELSE /\ ~IsNone(result.sanitized)
         /\ \A d \in { <<";">>, <<"-", "-">>, <<"/", "*">>, <<"*", "/">>,
                       <<"x", "p", "_">>, <<"s", "p", "_">> } :
              ~Contains(Val(result.sanitized), d)

====
